---- MODULE Spec2Model ----
(***************************************************************************)
(* The six Playwright verification scripts of dog-dash                     *)
(* (src/verification/verify_*.py) as one state machine.  A run is one      *)
(* process executing one script: enter sync_playwright(), launch, open a   *)
(* page, execute the script's page calls in order, handle a raised error   *)
(* the way the script's try/except/finally does, close, leave the with     *)
(* block.  The artifact files survive from run to run.                     *)
(***************************************************************************)
EXTENDS Integers, Sequences, FiniteSets, TLC

\* ---------------------------------------------------------------- bounds
MaxRuns == 2
MaxEvents == 2

\* ------------------------------------------------------- static script data
Scripts == {"asteroid", "horizon", "level_2", "load", "reentry", "waterfall"}

Paths == {"verification/level1.png", "verification/level3_horizon.png",
          "verification/level2_asteroids.png", "verification/screenshot.png",
          "verification/reentry_effect.png"}

\* a page call: kind, screenshot path, text printed before and after it
St(k, pre, post) == [kind |-> k, path |-> "", pre |-> pre, post |-> post]

Shot(p, pre, post) == [kind |-> "screenshot", path |-> p, pre |-> pre, post |-> post]

StepsAsteroid ==
  << St("goto", "", ""), St("wait_for_selector", "", ""), St("click", "", ""),
     St("wait_for_timeout", "", ""),
     Shot("verification/level1.png", "", "Screenshot taken.") >>

StepsHorizon ==
  << St("goto", "", ""), St("wait_for_selector", "", ""),
     St("wait_for_timeout", "", ""),
     St("is_visible", "", "Instructions visible"),
     St("evaluate", "Clicking instructions via JS...", ""),
     St("wait_for_timeout", "", ""),
     Shot("verification/level3_horizon.png", "Taking screenshot...",
          "Level 3 screenshot taken") >>

StepsLevel2 ==
  << St("goto", "", ""), St("wait_for_selector", "", ""), St("click", "", ""),
     St("wait_for_timeout", "", ""),
     Shot("verification/level2_asteroids.png", "", ""),
     St("inner_text", "", "Level Text") >>

StepsLoad ==
  << St("goto", "Navigating to app...", ""),
     St("wait_for_selector", "Waiting for canvas...", ""),
     St("sleep", "", ""),
     Shot("verification/screenshot.png", "Taking screenshot...", ""),
     St("content", "", "WebGPU not supported warning found") >>

StepsReentry ==
  << St("goto", "", ""), St("wait_for_timeout", "", ""), St("click", "", ""),
     St("wait_for_timeout", "", ""), St("press", "", ""),
     St("wait_for_timeout", "", ""),
     Shot("verification/reentry_effect.png", "", "") >>

StepsWaterfall ==
  << St("goto", "", ""), St("wait_for_selector", "", ""), St("click", "", ""),
     St("evaluate", "", ""), St("sleep", "", ""),
     Shot("verification/level1.png", "", "Screenshot Level 1 taken") >>

Steps(s) ==
  CASE s = "asteroid" -> StepsAsteroid
    [] s = "horizon" -> StepsHorizon
    [] s = "level_2" -> StepsLevel2
    [] s = "load" -> StepsLoad
    [] s = "reentry" -> StepsReentry
    [] s = "waterfall" -> StepsWaterfall

\* time.sleep is not a Playwright call: it cannot raise and dispatches no event
IsPageCall(k) == k # "sleep"

\* reentry opens its page through browser.new_context()
UsesContext(s) == s = "reentry"

\* variant: verify_horizon registers no listener
HasListenerLoadOnly(s) == s = "load"

\* the scripts that register page.on listeners
HasListener(s) == s \in {"load", "horizon"}

\* variant: the call that raised is entered again
OnRaiseRetry(s) == "steps"

\* where control goes when a page call raises inside the script body
OnRaise(s) ==
  CASE s \in {"load", "horizon", "waterfall"} -> "except"
    [] s \in {"asteroid", "level_2"} -> "close"
    [] s = "reentry" -> "exit"

\* what the except clause prints
ExceptTag(s) == IF s = "load" THEN "Verification failed" ELSE "Error"

\* variant: every except clause ends in sys.exit(1)
ExceptPendingExitAlways(s) == "SystemExit"

\* what is pending after the except clause: load calls sys.exit(1)
ExceptPending(s) == IF s = "load" THEN "SystemExit" ELSE "none"

\* where control goes after the last page call returned
AfterSteps(s) == IF s = "load" THEN "summary" ELSE "close"

\* variant: the call after the next one
StepAfterSkip(i) == i + 2

\* the call that follows call i
StepAfter(i) == i + 1

\* ------------------------------------------------------------- page events
EventKinds == {"log", "warning", "error", "pageerror"}

\* the events tried: a console log and a console error with one text, a console
\* warning and a page error with another
TextOf(k) == IF k \in {"log", "error"} THEN "t1" ELSE "t2"

Events == {[kind |-> k, text |-> TextOf(k)] : k \in EventKinds}

\* variant: the pageerror listener is missing
BufferedConsoleOnly(e) == e.kind = "error"

\* verify_load's listeners: console messages of type error, and page errors
Buffered(e) == e.kind = "error" \/ e.kind = "pageerror"

\* verify_horizon's listener: every console message, no page errors
Printed(e) == e.kind # "pageerror"

\* the event name a page event is emitted under
Channel(e) == IF e.kind = "pageerror" THEN "pageerror" ELSE "console"

\* the event names the script registers a listener for with page.on
Registered(s) ==
  CASE s = "load" -> {"console", "pageerror"}
    [] s = "horizon" -> {"console"}
    [] OTHER -> {}

Line(tag, val) == [tag |-> tag, val |-> val]

\* ------------------------------------------------------------------- state
VARIABLES
  runNo,       \* number of the current run (process), 1..MaxRuns
  script,      \* the script this run executes
  pc,          \* position of the run
  playwright,  \* the sync_playwright() context: "none", "started", "stopped"
  lifecycle,   \* "Created", "Launched", "PageOpen", "Closed"
  pages,       \* number of new_page calls that returned
  inCall,      \* the call in progress, "none" between calls
  stepIdx,     \* index (from 1) of the next page call of the script body
  pending,     \* exception in flight: "none", "Error", "SystemExit"
  failedAt,    \* index (from 1) of the page call that raised, 0 if none
  listening,   \* page.on listeners are registered
  errors,      \* verify_load's errors list
  stdout,      \* lines printed by the statements of the script, in order
  console,     \* texts printed by verify_horizon's console listener, in order
  exitStatus,  \* "none" while running, then "normal", "sysexit1", "uncaught"
  closeCalls,  \* number of browser.close() invocations in this run
  files,       \* path -> number of the run whose image the file holds, 0 = absent
  emitted,     \* events emitted by the page in this run
  attempted,   \* indices of the page calls begun, in order
  completed,   \* indices of the page calls that returned or raised, in order
  marks        \* observations: Len(emitted) at registration and at the summary, errors
               \* at the summary, a page error reached the listener, a call began after it,
               \* the launch raised, number of events for which a listener was run

vars == << runNo, script, pc, playwright, lifecycle, pages, inCall, stepIdx,
           pending, failedAt, listening, errors, stdout, console,
           exitStatus, closeCalls, files, emitted, attempted, completed, marks >>

NoMarks == [attachAt |-> -1, summaryAt |-> -1, summaryErrors |-> << >>,
            crashed |-> FALSE, stepAfterCrash |-> FALSE,
            launchFailed |-> FALSE, observed |-> 0]

RunStart(n, s, f) ==
  /\ runNo = n
  /\ script = s
  /\ pc = "init"
  /\ playwright = "none"
  /\ lifecycle = "Created"
  /\ pages = 0
  /\ inCall = "none"
  /\ stepIdx = 1
  /\ pending = "none"
  /\ failedAt = 0
  /\ listening = FALSE
  /\ errors = << >>
  /\ stdout = << >>
  /\ console = << >>
  /\ exitStatus = "none"
  /\ closeCalls = 0
  /\ files = f
  /\ emitted = << >>
  /\ attempted = << >>
  /\ completed = << >>
  /\ marks = NoMarks

Init == \E s \in Scripts : RunStart(1, s, [p \in Paths |-> 0])

\* ----------------------------------------------------------------- actions
\* with sync_playwright() as p:
EnterPlaywright ==
  /\ pc = "init"
  /\ playwright' = "started"
  /\ pc' = "launch"
  /\ UNCHANGED << runNo, script, lifecycle, pages, inCall, stepIdx, pending,
                  failedAt, listening, errors, stdout, console, exitStatus, closeCalls,
                  files, emitted, attempted, completed, marks >>

\* variant: a launch that raises is swallowed and the run ends normally
LaunchFailureSwallowed ==
  /\ pc = "launch"
  /\ \E ok \in BOOLEAN :
       IF ok
       THEN /\ lifecycle' = "Launched"
            /\ pc' = IF UsesContext(script) THEN "new_context" ELSE "new_page"
            /\ marks' = marks
       ELSE /\ lifecycle' = lifecycle
            /\ pc' = "exit"
            /\ marks' = [marks EXCEPT !.launchFailed = TRUE]
  /\ UNCHANGED << runNo, script, playwright, pages, inCall, stepIdx, pending,
                  failedAt, listening, errors, stdout, console, exitStatus,
                  closeCalls, files, emitted, attempted, completed >>

\* browser = p.chromium.launch(...): returns a browser, or raises outside any try
Launch ==
  /\ pc = "launch"
  /\ \E ok \in BOOLEAN :
       IF ok
       THEN /\ lifecycle' = "Launched"
            /\ pc' = IF UsesContext(script) THEN "new_context" ELSE "new_page"
            /\ pending' = pending
            /\ marks' = marks
       ELSE /\ lifecycle' = lifecycle
            /\ pc' = "exit"
            /\ pending' = "Error"
            /\ marks' = [marks EXCEPT !.launchFailed = TRUE]
  /\ UNCHANGED << runNo, script, playwright, pages, inCall, stepIdx, failedAt,
                  listening, errors, stdout, console, exitStatus, closeCalls, files,
                  emitted, attempted, completed >>

\* context = browser.new_context() (verify_reentry only), outside any try
NewContext ==
  /\ pc = "new_context"
  /\ \E ok \in BOOLEAN :
       IF ok
       THEN pc' = "new_page" /\ pending' = pending
       ELSE pc' = "exit" /\ pending' = "Error"
  /\ UNCHANGED << runNo, script, playwright, lifecycle, pages, inCall, stepIdx,
                  failedAt, listening, errors, stdout, console, exitStatus, closeCalls,
                  files, emitted, attempted, completed, marks >>

\* page = browser.new_page() is entered
NewPageBegin ==
  /\ pc = "new_page"
  /\ inCall = "none"
  /\ inCall' = "new_page"
  /\ UNCHANGED << runNo, script, pc, playwright, lifecycle, pages, stepIdx,
                  pending, failedAt, listening, errors, stdout, console, exitStatus,
                  closeCalls, files, emitted, attempted, completed, marks >>

\* variant: a second page is opened after the first
NewPageEndAgain ==
  /\ pc = "new_page"
  /\ inCall = "new_page"
  /\ inCall' = "none"
  /\ \E ok \in BOOLEAN :
       IF ok
       THEN /\ lifecycle' = "PageOpen"
            /\ pages' = pages + 1
            /\ pc' = IF pages = 0 THEN "new_page"
                     ELSE IF HasListener(script) THEN "attach" ELSE "steps"
            /\ pending' = pending
       ELSE /\ lifecycle' = lifecycle
            /\ pages' = pages
            /\ pc' = "exit"
            /\ pending' = "Error"
  /\ UNCHANGED << runNo, script, playwright, stepIdx, failedAt, listening,
                  errors, stdout, console, exitStatus, closeCalls, files, emitted,
                  attempted, completed, marks >>

\* new_page returns the page, or raises outside any try
NewPageEnd ==
  /\ pc = "new_page"
  /\ inCall = "new_page"
  /\ inCall' = "none"
  /\ \E ok \in BOOLEAN :
       IF ok
       THEN /\ lifecycle' = "PageOpen"
            /\ pages' = pages + 1
            /\ pc' = IF HasListener(script) THEN "attach" ELSE "steps"
            /\ pending' = pending
       ELSE /\ lifecycle' = lifecycle
            /\ pages' = pages
            /\ pc' = "exit"
            /\ pending' = "Error"
  /\ UNCHANGED << runNo, script, playwright, stepIdx, failedAt, listening,
                  errors, stdout, console, exitStatus, closeCalls, files, emitted,
                  attempted, completed, marks >>

\* errors = []; page.on("console", ...); page.on("pageerror", ...)
Attach ==
  /\ pc = "attach"
  /\ listening' = TRUE
  /\ errors' = << >>
  /\ marks' = [marks EXCEPT !.attachAt = Len(emitted)]
  /\ pc' = "steps"
  /\ UNCHANGED << runNo, script, playwright, lifecycle, pages, inCall, stepIdx,
                  pending, failedAt, stdout, console, exitStatus, closeCalls, files,
                  emitted, attempted, completed >>

PrintIf(out, text) == IF text = "" THEN out ELSE Append(out, Line(text, << >>))

\* the next page call of the script body is entered
StepBegin ==
  /\ pc = "steps"
  /\ inCall = "none"
  /\ stepIdx <= Len(Steps(script))
  /\ inCall' = Steps(script)[stepIdx].kind
  /\ attempted' = Append(attempted, stepIdx)
  /\ stdout' = PrintIf(stdout, Steps(script)[stepIdx].pre)
  /\ marks' = [marks EXCEPT !.stepAfterCrash = @ \/ marks.crashed]
  /\ UNCHANGED << runNo, script, pc, playwright, lifecycle, pages, stepIdx,
                  pending, failedAt, listening, errors, console, exitStatus,
                  closeCalls, files, emitted, completed >>

\* the page call returns: a screenshot has written its file
StepReturn ==
  /\ pc = "steps"
  /\ inCall # "none"
  /\ LET st == Steps(script)[stepIdx]
         nxt == StepAfter(stepIdx)
     IN /\ files' = IF st.kind = "screenshot"
                     THEN [files EXCEPT ![st.path] = runNo]
                     ELSE files
        /\ \E shown \in BOOLEAN :
             /\ st.kind # "content" => shown
             /\ stdout' = IF shown THEN PrintIf(stdout, st.post) ELSE stdout
        /\ completed' = Append(completed, stepIdx)
        /\ stepIdx' = nxt
        /\ pc' = IF nxt > Len(Steps(script)) THEN AfterSteps(script) ELSE "steps"
  /\ inCall' = "none"
  /\ UNCHANGED << runNo, script, playwright, lifecycle, pages, pending,
                  failedAt, listening, errors, exitStatus, closeCalls, emitted,
                  attempted, marks, console >>

\* the page call raises (playwright Error / TimeoutError)
StepRaise ==
  /\ pc = "steps"
  /\ inCall # "none"
  /\ IsPageCall(inCall)
  /\ inCall' = "none"
  /\ completed' = Append(completed, stepIdx)
  /\ failedAt' = stepIdx
  /\ pending' = "Error"
  /\ pc' = OnRaise(script)
  /\ UNCHANGED << runNo, script, playwright, lifecycle, pages, stepIdx,
                  listening, errors, stdout, console, exitStatus, closeCalls, files,
                  emitted, attempted, marks >>

\* variant: collected errors make the run exit with status 1
SummaryFailsOnErrors ==
  /\ pc = "summary"
  /\ stdout' = IF errors # << >>
               THEN Append(stdout, Line("Console Errors found:", errors))
               ELSE Append(stdout, Line("No console errors.", << >>))
  /\ marks' = [marks EXCEPT !.summaryAt = Len(emitted), !.summaryErrors = errors]
  /\ pending' = IF errors # << >> THEN "SystemExit" ELSE pending
  /\ pc' = "close"
  /\ UNCHANGED << runNo, script, playwright, lifecycle, pages, inCall, stepIdx,
                  failedAt, listening, errors, console, exitStatus, closeCalls,
                  files, emitted, attempted, completed >>

\* verify_load: if errors: print them, else: print("No console errors.")
Summary ==
  /\ pc = "summary"
  /\ stdout' = IF errors # << >>
               THEN Append(stdout, Line("Console Errors found:", errors))
               ELSE Append(stdout, Line("No console errors.", << >>))
  /\ marks' = [marks EXCEPT !.summaryAt = Len(emitted), !.summaryErrors = errors]
  /\ pc' = "close"
  /\ UNCHANGED << runNo, script, playwright, lifecycle, pages, inCall, stepIdx,
                  pending, failedAt, listening, errors, exitStatus, closeCalls,
                  files, emitted, attempted, completed, console >>

\* except Exception as e: print(...) and, in verify_load, sys.exit(1)
Except ==
  /\ pc = "except"
  /\ stdout' = Append(stdout, Line(ExceptTag(script), << Steps(script)[failedAt].kind >>))
  /\ pending' = ExceptPending(script)
  /\ pc' = "close"
  /\ UNCHANGED << runNo, script, playwright, lifecycle, pages, inCall, stepIdx,
                  failedAt, listening, errors, exitStatus, closeCalls, files,
                  emitted, attempted, completed, marks, console >>

\* browser.close() is entered (finally clause, or the statement after the body)
CloseBegin ==
  /\ pc = "close"
  /\ inCall = "none"
  /\ inCall' = "close"
  /\ closeCalls' = closeCalls + 1
  /\ UNCHANGED << runNo, script, pc, playwright, lifecycle, pages, stepIdx,
                  pending, failedAt, listening, errors, stdout, console, exitStatus,
                  files, emitted, attempted, completed, marks >>

\* variant: after the close of a failed run the body is resumed
CloseEndThenResume ==
  /\ pc = "close"
  /\ inCall = "close"
  /\ inCall' = "none"
  /\ lifecycle' = "Closed"
  /\ pc' = IF failedAt # 0 THEN "steps" ELSE "exit"
  /\ UNCHANGED << runNo, script, playwright, pages, stepIdx, pending, failedAt,
                  listening, errors, stdout, console, exitStatus, closeCalls, files,
                  emitted, attempted, completed, marks >>

\* browser.close() returns
CloseEnd ==
  /\ pc = "close"
  /\ inCall = "close"
  /\ inCall' = "none"
  /\ lifecycle' = "Closed"
  /\ pc' = "exit"
  /\ UNCHANGED << runNo, script, playwright, pages, stepIdx, pending, failedAt,
                  listening, errors, stdout, console, exitStatus, closeCalls, files,
                  emitted, attempted, completed, marks >>

\* the with block is left and the process ends
Exit ==
  /\ pc = "exit"
  /\ playwright' = "stopped"
  /\ exitStatus' = CASE pending = "none" -> "normal"
                      [] pending = "SystemExit" -> "sysexit1"
                      [] pending = "Error" -> "uncaught"
  /\ pc' = "done"
  /\ UNCHANGED << runNo, script, lifecycle, pages, inCall, stepIdx, pending,
                  failedAt, listening, errors, stdout, console, closeCalls, files,
                  emitted, attempted, completed, marks >>

\* verify_load: both lambdas append the text to errors, console only for type error
ListenerErrors(s, e, errs) ==
  IF s = "load" /\ Buffered(e) THEN Append(errs, e.text) ELSE errs

\* verify_horizon: the console lambda prints the text
ListenerConsole(s, e, con) ==
  IF s = "horizon" /\ Printed(e) THEN Append(con, e.text) ELSE con

\* variant: a page error raises into the call in progress
PageEventAborts(e) ==
  /\ playwright = "started"
  /\ inCall # "none"
  /\ IsPageCall(inCall)
  /\ inCall = "new_page" \/ lifecycle = "PageOpen"
  /\ Len(emitted) < MaxEvents
  /\ emitted' = Append(emitted, e)
  /\ errors' = IF listening THEN ListenerErrors(script, e, errors) ELSE errors
  /\ console' = IF listening THEN ListenerConsole(script, e, console) ELSE console
  /\ marks' = [marks EXCEPT
                 !.crashed = @ \/ (listening /\ script = "load" /\ e.kind = "pageerror"),
                 !.observed = IF listening /\ Channel(e) \in Registered(script)
                              THEN @ + 1 ELSE @]
  /\ pending' = IF e.kind = "pageerror" /\ listening THEN "Error" ELSE pending
  /\ pc' = IF e.kind = "pageerror" /\ listening THEN "exit" ELSE pc
  /\ UNCHANGED << runNo, script, playwright, lifecycle, pages, inCall,
                  stepIdx, failedAt, listening, stdout, exitStatus, closeCalls,
                  files, attempted, completed >>

\* the page emits a console message or an uncaught error; the sync API runs the
\* registered listeners while the script is inside a Playwright call (new_page,
\* a page call, close)
PageEvent(e) ==
  /\ playwright = "started"
  /\ inCall # "none"
  /\ IsPageCall(inCall)
  /\ inCall = "new_page" \/ lifecycle = "PageOpen"
  /\ Len(emitted) < MaxEvents
  /\ emitted' = Append(emitted, e)
  /\ errors' = IF listening THEN ListenerErrors(script, e, errors) ELSE errors
  /\ console' = IF listening THEN ListenerConsole(script, e, console) ELSE console
  /\ marks' = [marks EXCEPT
                 !.crashed = @ \/ (listening /\ script = "load" /\ e.kind = "pageerror"),
                 !.observed = IF listening /\ Channel(e) \in Registered(script)
                              THEN @ + 1 ELSE @]
  /\ UNCHANGED << runNo, script, pc, playwright, lifecycle, pages, inCall,
                  stepIdx, pending, failedAt, listening, stdout, exitStatus,
                  closeCalls, files, attempted, completed >>

\* the next process is started: any script, the files are those left behind
StartRun(s) ==
  /\ pc = "done"
  /\ runNo < MaxRuns
  /\ runNo' = runNo + 1
  /\ script' = s
  /\ pc' = "init"
  /\ playwright' = "none"
  /\ lifecycle' = "Created"
  /\ pages' = 0
  /\ inCall' = "none"
  /\ stepIdx' = 1
  /\ pending' = "none"
  /\ failedAt' = 0
  /\ listening' = FALSE
  /\ errors' = << >>
  /\ stdout' = << >>
  /\ console' = << >>
  /\ exitStatus' = "none"
  /\ closeCalls' = 0
  /\ emitted' = << >>
  /\ attempted' = << >>
  /\ completed' = << >>
  /\ marks' = NoMarks
  /\ UNCHANGED files

Next ==
  \/ EnterPlaywright
  \/ Launch
  \/ NewContext
  \/ NewPageBegin
  \/ NewPageEnd
  \/ Attach
  \/ StepBegin
  \/ StepReturn
  \/ StepRaise
  \/ Summary
  \/ Except
  \/ CloseBegin
  \/ CloseEnd
  \/ Exit
  \/ \E e \in Events : PageEvent(e)
  \/ \E s \in Scripts : StartRun(s)

Spec == Init /\ [][Next]_vars

\* ------------------------------------------------------ derived observations
\* the status the process ends with: sys.exit(1) and an uncaught exception both
\* give 1
ExitCode(st) == CASE st = "normal" -> 0 [] st = "sysexit1" -> 1 [] st = "uncaught" -> 1

Ended == exitStatus # "none"

UpTo(n) == [k \in 1..n |-> k]

TextsOf(q) == [k \in 1..Len(q) |-> q[k].text]

\* the run's failure as the scripts know it: a raised page call, nothing else
Failure == IF failedAt = 0 THEN "none" ELSE "StepError"

\* the except clause of the script printed the failure of the call that raised
FailurePrinted ==
  \E k \in 1..Len(stdout) :
    /\ stdout[k].tag \in {"Error", "Verification failed"}
    /\ stdout[k].val = << Steps(script)[failedAt].kind >>

\* index of the script's screenshot call
ShotIdx(s) == CHOOSE i \in 1..Len(Steps(s)) : Steps(s)[i].kind = "screenshot"

\* events emitted since the listeners were registered
SinceAttach == SubSeq(emitted, marks.attachAt + 1, Len(emitted))

\* ------------------------------------------------------------------ claims

\* C1: whenever the launch succeeded and the page was opened, browser.close()
\* has been invoked exactly once when the script ends, whether all steps
\* succeeded or one of them raised.
C1_CloseExactlyOnce ==
  (Ended /\ lifecycle # "Created" /\ pages > 0) => closeCalls = 1

C3_AttemptedUpToFailure ==
  failedAt # 0 => attempted = UpTo(failedAt)

C3_Witness ==
  Ended /\ failedAt > 1 /\ failedAt < Len(Steps(script)) /\ closeCalls = 1

\* C4: steps begin in declaration order, each after its predecessor has
\* returned or raised; at most one step is in progress at any time, and a
\* screenshot is never begun before the script's click has completed.
C4_StrictOrder ==
  /\ attempted = UpTo(Len(attempted))
  /\ completed = UpTo(Len(completed))
  /\ Len(attempted) - Len(completed) \in {0, 1}
  /\ Len(attempted) > Len(completed) <=> (pc = "steps" /\ inCall # "none")
  /\ \A j \in 1..Len(attempted) :
       Steps(script)[attempted[j]].kind = "screenshot" =>
         \A i \in 1..Len(Steps(script)) :
           Steps(script)[i].kind = "click" =>
             \E k \in 1..Len(completed) : completed[k] = i /\ k < j

C4_Witness ==
  /\ script = "reentry"
  /\ inCall = "screenshot"
  /\ Len(attempted) = 7
  /\ Len(completed) = 6

C6_DiagnosticsFlushedOnFailure ==
  (Ended /\ failedAt # 0 /\ errors # << >>) =>
     \E k \in 1..Len(stdout) :
        stdout[k].tag = "Console Errors found:" /\ stdout[k].val = errors

\* C7: when a step raised before the script's screenshot step, a screenshot has
\* still been attempted by the time the session is closed or the run ends.
C7_PendingScreenshotAttempted ==
  ((closeCalls > 0 \/ Ended) /\ failedAt # 0 /\ failedAt < ShotIdx(script)) =>
     \E k \in 1..Len(attempted) : Steps(script)[attempted[k]].kind = "screenshot"

C9_WindowExact ==
  /\ listening => Len(errors) <= Len(SinceAttach)
  /\ marks.summaryAt # -1 => errors = marks.summaryErrors

\* C10: a file written by an earlier run is never written again by a later run.
C10_NoOverwrite ==
  [][ \A p \in Paths : (files[p] # 0 /\ files[p] < runNo') => files'[p] = files[p] ]_vars

\* C11: when the launch raises, no page is opened, no step is begun, close is
\* not called, this run writes no file, nothing is printed by an except clause,
\* and the error leaves the script uncaught.
C11_LaunchFailureFatal ==
  marks.launchFailed =>
     /\ lifecycle = "Created"
     /\ pages = 0
     /\ attempted = << >>
     /\ closeCalls = 0
     /\ \A p \in Paths : files[p] # runNo
     /\ stdout = << >>
     /\ pending = "Error"
     /\ pc \in {"exit", "done"}
     /\ Ended => exitStatus = "uncaught"

C11_Witness ==
  /\ marks.launchFailed
  /\ exitStatus = "uncaught"
  /\ runNo = 2
  /\ \E p \in Paths : files[p] = 1

\* C12: at most one navigation is begun in a run, and once the navigation has
\* raised, no page call is begun or in progress any more.
C12_SingleNavigation ==
  /\ Cardinality({k \in 1..Len(attempted) :
                    Steps(script)[attempted[k]].kind = "goto"}) <= 1
  /\ (failedAt # 0 /\ Steps(script)[failedAt].kind = "goto") =>
        /\ attempted = << failedAt >>
        /\ pc # "steps"
        /\ inCall \in {"none", "close"}

C12_Witness ==
  /\ script = "waterfall"
  /\ failedAt = 1
  /\ Steps(script)[failedAt].kind = "goto"
  /\ lifecycle = "Closed"
  /\ exitStatus = "normal"

\* C13: a launched browser never has more than one page: new_page returns at
\* most once per run, it is only entered while no page is open, and a session
\* in state PageOpen has exactly one page (verify_reentry included).
C13_AtMostOnePage ==
  /\ pages <= 1
  /\ (pc = "new_page" \/ inCall = "new_page") => pages = 0
  /\ lifecycle = "PageOpen" => pages = 1
  /\ lifecycle \in {"Created", "Launched"} => pages = 0

C13_Witness ==
  /\ script = "reentry"
  /\ pages = 1
  /\ lifecycle = "PageOpen"
  /\ inCall = "press"

\* C14: verify_load ends with status 1 exactly when a page call of the try
\* block raised; when none raised it ends normally, whatever errors holds.
C14_ExitOneIffStepRaised ==
  (script = "load" /\ Ended) =>
     /\ ExitCode(exitStatus) = 1 <=> failedAt # 0
     /\ (failedAt = 0 /\ Len(completed) = Len(Steps(script))) => exitStatus = "normal"

\* C14 (amended): verify_load's exit status never depends on errors. It ends
\* through sys.exit(1) exactly when a page call of the try block raised; it ends
\* with an uncaught exception, status 1 as well, exactly when launch or new_page
\* raised before the try block; otherwise it ends normally with status 0, the
\* summary printed, whether errors is empty or not.
C14_ExitStatusIgnoresDiagnostics ==
  (script = "load" /\ Ended) =>
     /\ exitStatus = "sysexit1" <=> failedAt # 0
     /\ exitStatus = "uncaught" <=> pages = 0
     /\ exitStatus = "normal" <=> (pages = 1 /\ failedAt = 0)
     /\ ExitCode(exitStatus) = (IF failedAt # 0 \/ pages = 0 THEN 1 ELSE 0)
     /\ exitStatus = "normal" => marks.summaryAt # -1

C14_Witness ==
  /\ script = "load"
  /\ exitStatus = "normal"
  /\ failedAt = 0
  /\ Len(errors) = 2
  /\ marks.summaryErrors = errors

\* the order of the session's lifecycle states
Rank(l) == CASE l = "Created" -> 0 [] l = "Launched" -> 1
             [] l = "PageOpen" -> 2 [] l = "Closed" -> 3

\* C15: a page call of a script body is only ever in progress while the session
\* is in state PageOpen (new_page has returned, close has not), on failure paths
\* too, and within a run the lifecycle state only moves one state forward:
\* Created -> Launched -> PageOpen -> Closed.
C15_PrimitivesOnlyWhilePageOpen ==
  /\ []((pc = "steps" /\ inCall # "none" /\ IsPageCall(inCall)) =>
          (lifecycle = "PageOpen" /\ pages = 1 /\ closeCalls = 0))
  /\ [][ (runNo' = runNo /\ lifecycle' # lifecycle) =>
           Rank(lifecycle') = Rank(lifecycle) + 1 ]_vars

C15_Witness ==
  /\ script = "level_2"
  /\ lifecycle = "Closed"
  /\ failedAt = 3
  /\ attempted = << 1, 2, 3 >>
  /\ exitStatus = "uncaught"

====
